---- MODULE Spec2Model ----
(***************************************************************************)
(* The launch lobby of pugchamp: the role-sufficiency calculation          *)
(* (calculateRolesNeeded), the launch conditions (checkLaunchConditions),  *)
(* the launch attempt with its ready-check timer (attemptLaunch) and the   *)
(* availability, readiness and disconnect handlers.                        *)
(*                                                                         *)
(* JavaScript runs one callback at a time.  A tick is one or more          *)
(* callbacks of the same kind run back to back (socket messages decoded    *)
(* from one payload, or timers that expire together), followed by the      *)
(* promise continuations they queued.  `microtasks` is that queue, `phase` *)
(* says where in a tick the process is.                                    *)
(***************************************************************************)
EXTENDS Integers, Sequences, FiniteSets, TLC

VARIABLES
    roles,                    \* config.get('app.games.roles'): key order and descriptors
    captainsAvailable,        \* Set of user IDs
    playersAvailable,         \* object: role name -> Set of user IDs
    missingLaunchConditions,  \* list of tags, written by checkLaunchConditions' then
    launchAttemptInProgress,  \* boolean
    readiesReceived,          \* Set of user IDs
    currentStatusMessage,     \* the last snapshot prepareStatusMessage built
    timers,                   \* number of ready-period timers scheduled and not yet fired
    microtasks,               \* queued promise continuations, first in first out
    phase,                    \* "startup", "idle", "io", "timer", "drain" (and "calc", "calculated")
    emitted,                  \* what the callback that ran last emitted, in order
    lastHandler,              \* name of the callback that ran last
    fault,                    \* "none", or the error the callback that ran last threw
    event                     \* what the handler that ran last was given, or NoEvent

vars == <<roles, captainsAvailable, playersAvailable, missingLaunchConditions,
          launchAttemptInProgress, readiesReceived, currentStatusMessage, timers,
          microtasks, phase, emitted, lastHandler, fault, event>>

(***************************************************************************)
(* Bounds and input sets                                                   *)
(***************************************************************************)
Users == {"A", "B", "C", "D"}

\* attemptLaunch calls whose continuations may be queued in one tick
MaxPending == 2

\* self.userRestrictions[userID]: a descriptor with its aspects, or absent
descriptor(aspects) == [present |-> TRUE, aspects |-> aspects]
absent == [present |-> FALSE, aspects |-> {}]

\* The descriptors the restriction map may hold for a user when an event of theirs
\* is handled: anyone may be unrestricted or denied start, A may be denied
\* captain, D may be absent from the map.
Restrictions(userID) ==
    {descriptor({}), descriptor({"start"})}
        \cup (IF userID = "A" THEN {descriptor({"captain"})} ELSE {})
        \cup (IF userID = "D" THEN {absent} ELSE {})

\* app.games.roles of the running lobby
RolesConfig == [names |-> <<"tank", "healer">>,
                info  |-> [tank |-> [min |-> 1], healer |-> [min |-> 1]]]

(***************************************************************************)
(* lodash / js-combinatorics helpers                                       *)
(***************************************************************************)
\* lodash.keys(roles): an object lists its keys in the order they were set
keys(rs) == rs.names

\* roles[roleName].min
roleMin(rs, roleName) == rs.info[roleName].min

\* lodash.size(roles)
size(rs) == Len(rs.names)

\* x put in front of every list of lists
RECURSIVE prepend(_, _)
prepend(x, lists) ==
    IF lists = <<>> THEN <<>>
    ELSE <<(<<x>> \o Head(lists))>> \o prepend(x, Tail(lists))

\* Combinatorics.combination(ary, k).toArray(): the k-element sub-lists of ary,
\* in lexicographic order of positions
RECURSIVE combination(_, _)
combination(ary, k) ==
    IF k = 0 THEN << <<>> >>
    ELSE IF Len(ary) < k THEN <<>>
    ELSE prepend(Head(ary), combination(Tail(ary), k - 1))
            \o combination(Tail(ary), k)

\* the members of a that b does not hold
intersectionInverted(a, b) == {x \in a : x \notin b}

\* lodash.intersection([...a], [...b]) wrapped in a Set
intersection(a, b) == {x \in a : x \in b}

\* lodash(list).without(value)
without(list, value) == SelectSeq(list, LAMBDA t : t # value)

(***************************************************************************)
(* calculateRolesNeeded                                                    *)
(***************************************************************************)
\* the lodash.reduce of checkCombination: union of the pools and summed requirement
RECURSIVE combinationInfo(_, _, _, _)
combinationInfo(rs, available, comb, current) ==
    IF comb = <<>> THEN current
    ELSE combinationInfo(rs, available, Tail(comb),
            [available |-> current.available \cup available[Head(comb)],
             required  |-> current.required + (roleMin(rs, Head(comb)) * 2)])

\* lines 29-36: the entry pushed for a combination that misses players
neededCombination(comb, info) ==
    IF info.required - Cardinality(info.available) > 0
    THEN <<[roles |-> comb, needed |-> info.required - Cardinality(info.available)]>>
    ELSE <<>>

\* checkCombination: the entry pushed for one combination, or nothing
checkCombination(rs, available, comb) ==
    neededCombination(comb,
        combinationInfo(rs, available, comb, [available |-> {}, required |-> 0]))

RECURSIVE eachCombination(_, _, _)
eachCombination(rs, available, combs) ==
    IF combs = <<>> THEN <<>>
    ELSE checkCombination(rs, available, Head(combs))
            \o eachCombination(rs, available, Tail(combs))

\* forK with the combinations of one role alone
forKSingleRoles(rs, available, k) ==
    eachCombination(rs, available, combination(keys(rs), 1))

RECURSIVE forK(_, _, _)
forK(rs, available, k) ==
    IF k > size(rs) THEN <<>>
    ELSE eachCombination(rs, available, combination(keys(rs), k))
            \o forK(rs, available, k + 1)

calculateRolesNeeded(rs, available) == forK(rs, available, 1)

(***************************************************************************)
(* checkLaunchConditions and prepareStatusMessage                          *)
(***************************************************************************)
\* the pools as they are, the ready registry left aside
finalPlayersUnpruned(players, readies) == players

\* lodash.mapValues(playersAvailable, available => Set(intersection(available, readies)))
finalPlayers(players, readies) ==
    [r \in DOMAIN players |-> intersection(players[r], readies)]

\* checkLaunchConditions without the second calculateRolesNeeded (lines 89-94)
checkLaunchConditionsWithoutReadyPools(rs, players, captains, inProgress, readies) ==
    IF Cardinality(captains) < 2 THEN <<"notAvailable">>
    ELSE IF Len(calculateRolesNeeded(rs, players)) # 0 THEN <<"notAvailable">>
    ELSE IF ~inProgress THEN <<"readyNotChecked">>
    ELSE IF Cardinality(intersection(captains, readies)) < 2 THEN <<"notReady">>
    ELSE <<>>

\* checkLaunchConditions without the first calculateRolesNeeded (lines 67-72)
checkLaunchConditionsWithoutRawPools(rs, players, captains, inProgress, readies) ==
    IF Cardinality(captains) < 2 THEN <<"notAvailable">>
    ELSE IF ~inProgress THEN <<"readyNotChecked">>
    ELSE IF Cardinality(intersection(captains, readies)) < 2 THEN <<"notReady">>
    ELSE IF Len(calculateRolesNeeded(rs, finalPlayers(players, readies))) # 0
         THEN <<"notReady">>
    ELSE <<>>

\* checkLaunchConditions without the test of launchAttemptInProgress (lines 74-77)
checkLaunchConditionsWithoutReadyNotChecked(rs, players, captains, inProgress, readies) ==
    IF Cardinality(captains) < 2 THEN <<"notAvailable">>
    ELSE IF Len(calculateRolesNeeded(rs, players)) # 0 THEN <<"notAvailable">>
    ELSE IF ~inProgress THEN <<>>
    ELSE IF Cardinality(intersection(captains, readies)) < 2 THEN <<"notReady">>
    ELSE IF Len(calculateRolesNeeded(rs, finalPlayers(players, readies))) # 0
         THEN <<"notReady">>
    ELSE <<>>

\* checkLaunchConditions without the count of the ready captains (lines 84-87)
checkLaunchConditionsWithoutReadyCaptains(rs, players, captains, inProgress, readies) ==
    IF Cardinality(captains) < 2 THEN <<"notAvailable">>
    ELSE IF Len(calculateRolesNeeded(rs, players)) # 0 THEN <<"notAvailable">>
    ELSE IF ~inProgress THEN <<"readyNotChecked">>
    ELSE IF Len(calculateRolesNeeded(rs, finalPlayers(players, readies))) # 0
         THEN <<"notReady">>
    ELSE <<>>

\* the value the promise of checkLaunchConditions resolves with; the executor
\* runs synchronously, so it is computed from the state at the call
checkLaunchConditions(rs, players, captains, inProgress, readies) ==
    IF Cardinality(captains) < 2 THEN <<"notAvailable">>
    ELSE IF Len(calculateRolesNeeded(rs, players)) # 0 THEN <<"notAvailable">>
    ELSE IF ~inProgress THEN <<"readyNotChecked">>
    ELSE IF Cardinality(intersection(captains, readies)) < 2 THEN <<"notReady">>
    ELSE IF Len(calculateRolesNeeded(rs, finalPlayers(players, readies))) # 0
         THEN <<"notReady">>
    ELSE <<>>

prepareStatusMessage(rs, players, captains, missing) ==
    [playersAvailable        |-> players,
     captainsAvailable       |-> captains,
     rolesNeeded             |-> calculateRolesNeeded(rs, players),
     missingLaunchConditions |-> missing]

(***************************************************************************)
(* Messages                                                                *)
(***************************************************************************)
\* io.sockets.emit(name, arg)
broadcast(name, arg) == [name |-> name, to |-> "all", arg |-> arg]

\* self.emit('sendMessageToUser', {userID, name, arguments: [arg]})
sendMessageToUser(userID, name, arg) == [name |-> name, to |-> userID, arg |-> arg]

\* [...x] needs an iterable: a Set or an Array is one, a plain object is not
isIterable(type) == type \in {"Set", "Array"}

\* self.emit('launchGameDraft', {players: [...playersAvailable],
\*                               captains: [...captainsAvailable]})
\* playersAvailable is the plain object lodash.mapValues returns, so evaluating
\* the argument throws TypeError before emit is called
launchGameDraft(players, captains) ==
    IF isIterable("Object") /\ isIterable("Set")
    THEN [threw |-> FALSE,
          emits |-> <<[name |-> "launchGameDraft", to |-> "self",
                       arg |-> [players |-> players, captains |-> captains]]>>]
    ELSE [threw |-> TRUE, emits |-> <<>>]

\* initial values of variables declared without one
Undefined == <<"undefined">>

\* the callback that ran last is no event handler
NoEvent == [payload |-> Undefined, userRestrictions |-> Undefined]

\* the payload a handler was called with and the self.userRestrictions[userID]
\* it read (Undefined for a handler that reads none)
handled(payload, userRestrictions) ==
    [payload |-> payload, userRestrictions |-> userRestrictions]

(***************************************************************************)
(* attemptLaunch                                                           *)
(***************************************************************************)
\* attemptLaunch without the test of launchAttemptInProgress (lines 127-132)
attemptLaunchUnguarded(before, after) ==
    /\ microtasks' = Append(microtasks,
            [kind  |-> "attemptLaunch",
             value |-> checkLaunchConditions(roles, playersAvailable',
                          captainsAvailable', launchAttemptInProgress,
                          readiesReceived)])
    /\ phase' = "io"
    /\ emitted' = before \o after
    /\ UNCHANGED currentStatusMessage

\* attemptLaunch that prepares the snapshot of an open window and does not emit it
attemptLaunchSilent(before, after) ==
    IF launchAttemptInProgress
    THEN /\ currentStatusMessage' = prepareStatusMessage(roles, playersAvailable',
                                        captainsAvailable', missingLaunchConditions)
         /\ emitted' = before \o after
         /\ UNCHANGED <<microtasks, phase>>
    ELSE /\ microtasks' = Append(microtasks,
                [kind  |-> "attemptLaunch",
                 value |-> checkLaunchConditions(roles, playersAvailable',
                              captainsAvailable', launchAttemptInProgress,
                              readiesReceived)])
         /\ phase' = "io"
         /\ emitted' = before \o after
         /\ UNCHANGED currentStatusMessage

\* The call itself.  `before` and `after` are what the calling handler emits
\* before and after the call.  It reads the pools as the handler left them.
attemptLaunch(before, after) ==
    IF launchAttemptInProgress
    THEN /\ currentStatusMessage' = prepareStatusMessage(roles, playersAvailable',
                                        captainsAvailable', missingLaunchConditions)
         /\ emitted' = before
                        \o <<broadcast("launchStatusUpdated", currentStatusMessage')>>
                        \o after
         /\ UNCHANGED <<microtasks, phase>>
    ELSE /\ microtasks' = Append(microtasks,
                [kind  |-> "attemptLaunch",
                 value |-> checkLaunchConditions(roles, playersAvailable',
                              captainsAvailable', launchAttemptInProgress,
                              readiesReceived)])
         /\ phase' = "io"
         /\ emitted' = before \o after
         /\ UNCHANGED currentStatusMessage

\* the `then` of checkLaunchConditions (lines 100-104), once for every queued
\* check and before any continuation of attemptLaunch: the last value stays
ResolveLaunchConditions ==
    /\ phase \in {"startup", "io", "timer"}
    /\ microtasks # <<>>
    /\ missingLaunchConditions' = microtasks[Len(microtasks)].value
    /\ phase' = "drain"
    /\ emitted' = <<>>
    /\ lastHandler' = "checkLaunchConditions.then"
    /\ event' = NoEvent
    /\ fault' = "none"
    /\ UNCHANGED <<roles, captainsAvailable, playersAvailable, launchAttemptInProgress,
                   readiesReceived, currentStatusMessage, timers, microtasks>>

\* what is left of the tick after the first continuation ran
afterContinuation ==
    /\ microtasks' = Tail(microtasks)
    /\ phase' = IF Tail(microtasks) = <<>> THEN "idle" ELSE "drain"

\* the continuation of attemptLaunch (lines 134-166)
LaunchContinuation ==
    /\ phase = "drain"
    /\ microtasks # <<>>
    /\ Head(microtasks).kind = "attemptLaunch"
    /\ afterContinuation
    /\ currentStatusMessage' = prepareStatusMessage(roles, playersAvailable,
                                    captainsAvailable, missingLaunchConditions)
    /\ IF Len(without(missingLaunchConditions, "readyNotChecked")) = 0
       THEN /\ launchAttemptInProgress' = TRUE
            /\ readiesReceived' = {}
            /\ timers' = timers + 1
            /\ emitted' = <<broadcast("launchStatusUpdated", currentStatusMessage'),
                            broadcast("launchInProgress", <<>>)>>
       ELSE /\ emitted' = <<broadcast("launchStatusUpdated", currentStatusMessage')>>
            /\ UNCHANGED <<launchAttemptInProgress, readiesReceived, timers>>
    /\ lastHandler' = "attemptLaunch.then"
    /\ event' = NoEvent
    /\ fault' = "none"
    /\ UNCHANGED <<roles, captainsAvailable, playersAvailable, missingLaunchConditions>>

\* the ready-period timer fires (lines 144-145): checkLaunchConditions is called
ReadyPeriodTimeout ==
    /\ phase \in {"idle", "timer"}
    /\ timers > 0
    /\ timers' = timers - 1
    /\ microtasks' = Append(microtasks,
            [kind  |-> "timer",
             value |-> checkLaunchConditions(roles, playersAvailable, captainsAvailable,
                          launchAttemptInProgress, readiesReceived)])
    /\ phase' = "timer"
    /\ emitted' = <<>>
    /\ lastHandler' = "setTimeout"
    /\ event' = NoEvent
    /\ fault' = "none"
    /\ UNCHANGED <<roles, captainsAvailable, playersAvailable, missingLaunchConditions,
                   launchAttemptInProgress, readiesReceived, currentStatusMessage>>

\* the continuation in the timer callback (lines 145-163)
TimerContinuation ==
    /\ phase = "drain"
    /\ microtasks # <<>>
    /\ Head(microtasks).kind = "timer"
    /\ afterContinuation
    /\ playersAvailable' = finalPlayers(playersAvailable, readiesReceived)
    /\ captainsAvailable' = intersection(captainsAvailable, readiesReceived)
    /\ currentStatusMessage' = prepareStatusMessage(roles, playersAvailable',
                                    captainsAvailable', missingLaunchConditions)
    /\ LET draft == launchGameDraft(playersAvailable', captainsAvailable')
       IN  IF Len(missingLaunchConditions) = 0
           THEN /\ emitted' = <<broadcast("launchStatusUpdated", currentStatusMessage')>>
                                \o draft.emits
                /\ fault' = IF draft.threw THEN "TypeError" ELSE "none"
           ELSE /\ emitted' = <<broadcast("launchStatusUpdated", currentStatusMessage'),
                                broadcast("launchAborted", <<>>)>>
                /\ fault' = "none"
    /\ lastHandler' = "setTimeout.then"
    /\ event' = NoEvent
    /\ UNCHANGED <<roles, missingLaunchConditions, launchAttemptInProgress,
                   readiesReceived, timers>>

(***************************************************************************)
(* Handlers                                                                *)
(***************************************************************************)
\* The payloads the identity layer delivers: any user may withdraw; A offers
\* tank, B offers tank or both roles, and both offer to captain; C and D offer
\* healer.
Availabilities ==
    [userID : Users, roles : {{}}, captain : {FALSE}]
        \cup [userID : {"A", "B"}, roles : {{"tank"}}, captain : {TRUE}]
        \cup [userID : {"B"}, roles : {{"tank", "healer"}}, captain : {TRUE}]
        \cup [userID : {"C", "D"}, roles : {{"healer"}}, captain : {FALSE}]

ReadyInfos == [userID : Users, ready : BOOLEAN]

\* the role pools updated without a look at the start denial
updatedPlayersIgnoringStart(players, newAvailability, aspects) ==
    [r \in DOMAIN players |->
        IF r \in newAvailability.roles
        THEN players[r] \cup {newAvailability.userID}
        ELSE players[r] \ {newAvailability.userID}]

\* lines 174-198, the role pools
updatedPlayers(players, newAvailability, aspects) ==
    IF "start" \notin aspects
    THEN [r \in DOMAIN players |->
            IF r \in newAvailability.roles
            THEN players[r] \cup {newAvailability.userID}
            ELSE players[r] \ {newAvailability.userID}]
    ELSE [r \in DOMAIN players |-> players[r] \ {newAvailability.userID}]

\* the captain set updated without a look at the captain denial
updatedCaptainsIgnoringCaptain(captains, newAvailability, aspects) ==
    IF "start" \notin aspects
    THEN IF newAvailability.captain
         THEN captains \cup {newAvailability.userID}
         ELSE captains \ {newAvailability.userID}
    ELSE captains \ {newAvailability.userID}

\* lines 174-198, the captain set
updatedCaptains(captains, newAvailability, aspects) ==
    IF "start" \notin aspects
    THEN IF "captain" \notin aspects
         THEN IF newAvailability.captain
              THEN captains \cup {newAvailability.userID}
              ELSE captains \ {newAvailability.userID}
         ELSE captains \ {newAvailability.userID}
    ELSE captains \ {newAvailability.userID}

\* lines 200-209, the acknowledgment
availabilityUpdated(players, captains, userID) ==
    sendMessageToUser(userID, "userAvailabilityUpdated",
        [roles   |-> [r \in DOMAIN players |-> userID \in players[r]],
         captain |-> userID \in captains])

\* the ready registry updated whether a window is open or not
updatedReadiesAnyTime(readies, inProgress, readyInfo) ==
    IF readyInfo.ready
    THEN readies \cup {readyInfo.userID}
    ELSE readies \ {readyInfo.userID}

\* lines 214-220, the ready registry
updatedReadies(readies, inProgress, readyInfo) ==
    IF inProgress
    THEN IF readyInfo.ready
         THEN readies \cup {readyInfo.userID}
         ELSE readies \ {readyInfo.userID}
    ELSE readies

\* lines 222-226, the acknowledgment
readyStatusUpdated(readyInfo) ==
    sendMessageToUser(readyInfo.userID, "userReadyStatusUpdated", readyInfo.ready)

\* userRestrictions.aspects of an absent descriptor: TypeError before anything
\* else happened, the handler is left
throwsTypeError ==
    /\ fault' = "TypeError"
    /\ emitted' = <<>>
    /\ UNCHANGED <<roles, captainsAvailable, playersAvailable, missingLaunchConditions,
                   launchAttemptInProgress, readiesReceived, currentStatusMessage,
                   timers, microtasks, phase>>

\* a handler may run when no continuation is being run; attemptLaunch calls
\* that queue a continuation are counted against MaxPending
mayHandle ==
    /\ phase \in {"idle", "io"}
    /\ launchAttemptInProgress \/ Len(microtasks) < MaxPending

\* self.on('updateUserAvailability') (lines 171-212)
UpdateUserAvailability(newAvailability, userRestrictions) ==
    /\ mayHandle
    /\ lastHandler' = "updateUserAvailability"
    /\ event' = handled(newAvailability, userRestrictions)
    /\ IF ~userRestrictions.present
       THEN throwsTypeError
       ELSE /\ playersAvailable' = updatedPlayers(playersAvailable, newAvailability,
                                       userRestrictions.aspects)
            /\ captainsAvailable' = updatedCaptains(captainsAvailable, newAvailability,
                                       userRestrictions.aspects)
            /\ attemptLaunch(<<availabilityUpdated(playersAvailable', captainsAvailable',
                                  newAvailability.userID)>>, <<>>)
            /\ fault' = "none"
            /\ UNCHANGED <<roles, missingLaunchConditions, launchAttemptInProgress,
                           readiesReceived, timers>>

\* self.on('updateUserReadyStatus') (lines 213-227)
UpdateUserReadyStatus(readyInfo) ==
    /\ phase \in {"idle", "io"}
    /\ lastHandler' = "updateUserReadyStatus"
    /\ event' = handled(readyInfo, Undefined)
    /\ readiesReceived' = updatedReadies(readiesReceived, launchAttemptInProgress, readyInfo)
    /\ emitted' = <<readyStatusUpdated(readyInfo)>>
    /\ fault' = "none"
    /\ UNCHANGED <<roles, captainsAvailable, playersAvailable, missingLaunchConditions,
                   launchAttemptInProgress, currentStatusMessage, timers, microtasks,
                   phase>>

\* self.on('userDisconnected') (lines 263-274): both events are emitted, and
\* handled, before the handler returns
UserDisconnected(userID, userRestrictions) ==
    LET newAvailability == [userID |-> userID, roles |-> {}, captain |-> FALSE]
        readyInfo       == [userID |-> userID, ready |-> FALSE]
    IN  /\ mayHandle
        /\ lastHandler' = "userDisconnected"
        /\ event' = handled(userID, userRestrictions)
        /\ IF ~userRestrictions.present
           THEN throwsTypeError
           ELSE /\ playersAvailable' = updatedPlayers(playersAvailable, newAvailability,
                                           userRestrictions.aspects)
                /\ captainsAvailable' = updatedCaptains(captainsAvailable, newAvailability,
                                           userRestrictions.aspects)
                /\ attemptLaunch(<<availabilityUpdated(playersAvailable',
                                      captainsAvailable', userID)>>,
                                 <<readyStatusUpdated(readyInfo)>>)
                /\ readiesReceived' = updatedReadies(readiesReceived,
                                          launchAttemptInProgress, readyInfo)
                /\ fault' = "none"
                /\ UNCHANGED <<roles, missingLaunchConditions, launchAttemptInProgress,
                               timers>>

(***************************************************************************)
(* The lobby                                                               *)
(***************************************************************************)
\* lines 48-57, and the attemptLaunch() of line 169 whose continuation is queued
Init ==
    /\ roles = RolesConfig
    /\ captainsAvailable = {}
    /\ playersAvailable = [r \in {"tank", "healer"} |-> {}]
    /\ missingLaunchConditions = Undefined
    /\ launchAttemptInProgress = FALSE
    /\ readiesReceived = {}
    /\ currentStatusMessage = prepareStatusMessage(RolesConfig,
                                  [r \in {"tank", "healer"} |-> {}], {}, Undefined)
    /\ timers = 0
    /\ microtasks = <<[kind  |-> "attemptLaunch",
                       value |-> checkLaunchConditions(RolesConfig,
                                    [r \in {"tank", "healer"} |-> {}], {}, FALSE, {})]>>
    /\ phase = "startup"
    /\ emitted = <<>>
    /\ lastHandler = "module.exports"
    /\ fault = "none"
    /\ event = NoEvent

Next ==
    \/ \E a \in Availabilities : \E ur \in Restrictions(a.userID) : UpdateUserAvailability(a, ur)
    \/ \E ri \in ReadyInfos : UpdateUserReadyStatus(ri)
    \/ \E u \in Users : \E ur \in Restrictions(u) : UserDisconnected(u, ur)
    \/ ResolveLaunchConditions
    \/ LaunchContinuation
    \/ ReadyPeriodTimeout
    \/ TimerContinuation

Spec == Init /\ [][Next]_vars

(***************************************************************************)
(* The calculator and the launch conditions as functions of their inputs   *)
(***************************************************************************)
\* bounds of the role configurations and pools the calculator is applied to
MaxRoles == 3
MaxMin == 2
RoleNames == <<"tank", "healer", "support", "flank", "roamer">>
CalcUsers == {"A", "B", "C"}

CalcConfigs ==
    UNION {{[names |-> SubSeq(RoleNames, 1, n), info |-> i] :
              i \in [{RoleNames[j] : j \in 1..n} -> [min : 0..MaxMin]]} : n \in 0..MaxRoles}

\* every variable the calculation does not read, as the module leaves it
restOfInit ==
    /\ missingLaunchConditions = Undefined
    /\ currentStatusMessage = [playersAvailable |-> <<>>, captainsAvailable |-> {},
                               rolesNeeded |-> <<>>, missingLaunchConditions |-> Undefined]
    /\ timers = 0
    /\ microtasks = <<>>
    /\ emitted = <<>>
    /\ lastHandler = "module.exports"
    /\ fault = "none"
    /\ event = NoEvent

CalcInit ==
    /\ roles \in CalcConfigs
    /\ playersAvailable \in [{roles.names[j] : j \in 1..Len(roles.names)} -> SUBSET CalcUsers]
    /\ captainsAvailable = {}
    /\ launchAttemptInProgress = FALSE
    /\ readiesReceived = {}
    /\ phase = "calc"
    /\ restOfInit

\* prepareStatusMessage (lines 107-124), whose rolesNeeded is calculateRolesNeeded
PrepareStatusMessage ==
    /\ phase = "calc"
    /\ phase' = "calculated"
    /\ currentStatusMessage' = prepareStatusMessage(roles, playersAvailable,
                                    captainsAvailable, missingLaunchConditions)
    /\ UNCHANGED <<roles, captainsAvailable, playersAvailable, missingLaunchConditions,
                   launchAttemptInProgress, readiesReceived, timers, microtasks,
                   emitted, lastHandler, fault, event>>

CalcSpec == CalcInit /\ [][PrepareStatusMessage]_vars

\* the lobbies checkLaunchConditions is applied to: the running one, and one
\* with the tank role alone
CheckConfigs ==
    {RolesConfig, [names |-> <<"tank">>, info |-> [tank |-> [min |-> 1]]]}

CheckInit ==
    /\ roles \in CheckConfigs
    /\ playersAvailable \in [{roles.names[j] : j \in 1..Len(roles.names)} -> SUBSET Users]
    /\ captainsAvailable \in SUBSET Users
    /\ launchAttemptInProgress \in BOOLEAN
    /\ readiesReceived \in (IF launchAttemptInProgress THEN SUBSET Users ELSE {{}})
    /\ phase = "check"
    /\ restOfInit

\* checkLaunchConditions with its `then` (lines 59-105)
CheckLaunchConditions ==
    /\ phase = "check"
    /\ phase' = "checked"
    /\ missingLaunchConditions' = checkLaunchConditions(roles, playersAvailable,
                                      captainsAvailable, launchAttemptInProgress,
                                      readiesReceived)
    /\ UNCHANGED <<roles, captainsAvailable, playersAvailable, launchAttemptInProgress,
                   readiesReceived, currentStatusMessage, timers, microtasks, emitted,
                   lastHandler, fault, event>>

CheckSpec == CheckInit /\ [][CheckLaunchConditions]_vars

(***************************************************************************)
(* The handlers as functions of the lobby state and of one event           *)
(***************************************************************************)
\* the users whose events are delivered, and who may be in the pools
HandlerUsers == {"A", "B", "C"}

\* any payload of changeAvailability
AnyAvailability ==
    [userID : HandlerUsers, roles : SUBSET {"tank", "healer"}, captain : BOOLEAN]

\* any payload of updateReadyStatus
AnyReadyInfo == [userID : HandlerUsers, ready : BOOLEAN]

\* any self.userRestrictions[userID]
AnyRestrictions == {descriptor(aspects) : aspects \in SUBSET {"start", "captain"}}
                       \cup {absent}

\* A lobby between two ticks: any pools and captains; no window open and the
\* last check found the pools short (three users cannot fill two roles of
\* min 1), or a window open since the last check, its timer pending, with any
\* readies received.
HandlerInit ==
    /\ roles = RolesConfig
    /\ playersAvailable \in [{"tank", "healer"} -> SUBSET HandlerUsers]
    /\ captainsAvailable \in SUBSET HandlerUsers
    /\ launchAttemptInProgress \in BOOLEAN
    /\ readiesReceived \in (IF launchAttemptInProgress THEN SUBSET HandlerUsers ELSE {{}})
    /\ missingLaunchConditions = (IF launchAttemptInProgress
                                  THEN <<"readyNotChecked">> ELSE <<"notAvailable">>)
    /\ currentStatusMessage = prepareStatusMessage(roles, playersAvailable,
                                   captainsAvailable, missingLaunchConditions)
    /\ timers = (IF launchAttemptInProgress THEN 1 ELSE 0)
    /\ microtasks = <<>>
    /\ phase = "idle"
    /\ emitted = <<>>
    /\ lastHandler = "module.exports"
    /\ fault = "none"
    /\ event = NoEvent

\* one event is delivered and handled, the first since the lobby was observed
HandleEvent ==
    /\ lastHandler = "module.exports"
    /\ \/ \E a \in AnyAvailability : \E ur \in AnyRestrictions :
              UpdateUserAvailability(a, ur)
       \/ \E ri \in AnyReadyInfo : UpdateUserReadyStatus(ri)
       \/ \E u \in HandlerUsers : \E ur \in AnyRestrictions : UserDisconnected(u, ur)

HandlerSpec == HandlerInit /\ [][HandleEvent]_vars

(***************************************************************************)
(* Vocabulary of the properties                                            *)
(***************************************************************************)
\* how many messages of that name the callback that ran last emitted
count(name) == Cardinality({i \in DOMAIN emitted : emitted[i].name = name})

\* ready-check windows opened and not yet resolved: a timer is scheduled, or
\* has fired and its continuation is queued
openWindows ==
    timers + Cardinality({i \in DOMAIN microtasks : microtasks[i].kind = "timer"})

asSet(list) == {list[i] : i \in DOMAIN list}

\* sum of min * 2 over a set of roles
RECURSIVE required(_, _)
required(rs, S) ==
    IF S = {} THEN 0
    ELSE LET r == CHOOSE x \in S : TRUE
         IN  (rs.info[r].min * 2) + required(rs, S \ {r})

\* the users of the pools of a set of roles, each once
union(available, S) == UNION {available[r] : r \in S}

deficient(rs, available, S) == Cardinality(union(available, S)) < required(rs, S)

hasDeficit(rs, available) ==
    \E S \in (SUBSET asSet(rs.names)) \ {{}} : deficient(rs, available, S)

\* the pools intersected with the ready registry
readyPools == [r \in DOMAIN playersAvailable |-> playersAvailable[r] \cap readiesReceived]

(***************************************************************************)
(* C1  At most one ready-check window is open at a time: there is never    *)
(* more than one pending ready-check timer, and no window is opened while  *)
(* one is open, however attemptLaunch calls and their continuations        *)
(* interleave.                                                             *)
(***************************************************************************)
C1_AtMostOneWindow == timers <= 1 /\ openWindows <= 1

(***************************************************************************)
(* C2  Every opened window resolves: the continuation of the timer emits   *)
(* exactly one of launchGameDraft and launchAborted.                       *)
(***************************************************************************)
C2_WindowResolves ==
    lastHandler = "setTimeout.then" =>
        count("launchGameDraft") + count("launchAborted") = 1

(***************************************************************************)
(* C3  After the timer's expiry has been handled, on either branch,        *)
(* launchAttemptInProgress is false.                                       *)
(***************************************************************************)
C3_FlagResetAfterExpiry ==
    lastHandler = "setTimeout.then" => ~launchAttemptInProgress

(***************************************************************************)
(* C4  When the timer expires with no unmet condition, exactly one         *)
(* launchGameDraft is emitted, its players the role pools intersected with *)
(* the ready registry and its captains the captain set intersected with    *)
(* the ready registry (the continuation has stored both intersections).    *)
(***************************************************************************)
C4_RosterEmitted ==
    (lastHandler = "setTimeout.then" /\ missingLaunchConditions = <<>>) =>
        /\ count("launchGameDraft") = 1
        /\ \A i \in DOMAIN emitted :
              emitted[i].name = "launchGameDraft" =>
                  /\ emitted[i].arg.players = playersAvailable
                  /\ emitted[i].arg.captains = captainsAvailable

(***************************************************************************)
(* C5  If, when the continuation of the timer runs, fewer than two         *)
(* captains are ready or the ready pools have a deficit for some subset of *)
(* roles, launchAborted is emitted and launchGameDraft is not.  No handler *)
(* runs between the expiry and its continuation.                           *)
(***************************************************************************)
C5_AbortWhenNotReady ==
    [][(/\ phase = "drain"
        /\ microtasks # <<>>
        /\ Head(microtasks).kind = "timer"
        /\ \/ Cardinality(captainsAvailable \cap readiesReceived) < 2
           \/ hasDeficit(roles, readyPools))
       => (/\ lastHandler' = "setTimeout.then"
           /\ \E i \in DOMAIN emitted' : emitted'[i].name = "launchAborted"
           /\ \A i \in DOMAIN emitted' : emitted'[i].name # "launchGameDraft")]_vars

\* a window expired with one of the two captains not ready: aborted
C5_Witness ==
    /\ lastHandler = "setTimeout.then"
    /\ count("launchAborted") = 1
    /\ count("launchGameDraft") = 0
    /\ missingLaunchConditions = <<"notReady">>
    /\ Cardinality(captainsAvailable) = 1

(***************************************************************************)
(* C6  An attemptLaunch called while no window is open opens a window if   *)
(* and only if at the call at least two captains were available and the    *)
(* raw pools had no deficit (its check resolved with readyNotChecked);     *)
(* opening sets launchAttemptInProgress, empties the ready registry, emits *)
(* launchInProgress and schedules one timer, with the conditions still met.*)
(***************************************************************************)
C6_OpensIffConditionsMet ==
    [][(/\ phase = "drain"
        /\ microtasks # <<>>
        /\ Head(microtasks).kind = "attemptLaunch")
       => LET opens == \E i \in DOMAIN emitted' : emitted'[i].name = "launchInProgress"
          IN  /\ opens <=> (Head(microtasks).value = <<"readyNotChecked">>)
              /\ opens => /\ launchAttemptInProgress'
                          /\ readiesReceived' = {}
                          /\ timers' = timers + 1
                          /\ Cardinality(captainsAvailable') >= 2
                          /\ ~hasDeficit(roles', playersAvailable')]_vars

(***************************************************************************)
(* C7  calculateRolesNeeded returns exactly one entry for every non-empty  *)
(* subset of the configured roles whose pools hold, each user counted      *)
(* once, fewer users than the sum of min * 2 over the subset, with needed  *)
(* the difference, and no other entry; with no role the result is empty.   *)
(***************************************************************************)
C7_AllDeficientSubsets ==
    phase = "calculated" =>
        LET out == currentStatusMessage.rolesNeeded
        IN  /\ \A S \in (SUBSET asSet(roles.names)) \ {{}} :
                  Cardinality({i \in DOMAIN out : asSet(out[i].roles) = S})
                      = IF deficient(roles, playersAvailable, S) THEN 1 ELSE 0
            /\ \A i \in DOMAIN out :
                  /\ asSet(out[i].roles) \in (SUBSET asSet(roles.names)) \ {{}}
                  /\ Len(out[i].roles) = Cardinality(asSet(out[i].roles))
                  /\ out[i].needed = required(roles, asSet(out[i].roles))
                                       - Cardinality(union(playersAvailable,
                                                           asSet(out[i].roles)))
            /\ (roles.names = <<>> => out = <<>>)

\* two roles of min 1 with the same two users: each role alone is covered, the
\* pair is listed as missing 2
C7_Witness ==
    /\ phase = "calculated"
    /\ roles = RolesConfig
    /\ playersAvailable = [tank |-> {"A", "B"}, healer |-> {"A", "B"}]
    /\ currentStatusMessage.rolesNeeded = <<[roles |-> <<"tank", "healer">>, needed |-> 2]>>

(***************************************************************************)
(* C8  checkLaunchConditions returns exactly <<notAvailable>> if and only  *)
(* if fewer than 2 captains are available or some subset of roles has a    *)
(* deficit on the raw pools, whatever the window flag and the ready        *)
(* registry; two roles of min 1 with pools {A, B} both give notAvailable.  *)
(***************************************************************************)
C8_NotAvailableIff ==
    phase = "checked" =>
        /\ (missingLaunchConditions = <<"notAvailable">>)
              <=> (\/ Cardinality(captainsAvailable) < 2
                   \/ hasDeficit(roles, playersAvailable))
        /\ (/\ roles = RolesConfig
            /\ playersAvailable = [tank |-> {"A", "B"}, healer |-> {"A", "B"}])
              => missingLaunchConditions = <<"notAvailable">>

\* the overlapping pools with two captains, a window open and everyone ready
C8_Witness ==
    /\ phase = "checked"
    /\ roles = RolesConfig
    /\ playersAvailable = [tank |-> {"A", "B"}, healer |-> {"A", "B"}]
    /\ captainsAvailable = {"A", "B"}
    /\ launchAttemptInProgress
    /\ readiesReceived = Users
    /\ missingLaunchConditions = <<"notAvailable">>

(***************************************************************************)
(* C9  attemptLaunch called while a window is open leaves the ready        *)
(* registry, the pools, the captain set and launchAttemptInProgress as its *)
(* caller left them and schedules nothing; it rebuilds and broadcasts the  *)
(* snapshot.  Its callers are the availability handler, whose              *)
(* acknowledgment reports the membership just before the call, and the     *)
(* disconnect handler, which removes the user's readiness after it.        *)
(***************************************************************************)
C9_ReentrantAttemptLaunch ==
    [][(/\ launchAttemptInProgress
        /\ lastHandler' \in {"updateUserAvailability", "userDisconnected"}
        /\ fault' = "none")
       => LET ack == emitted'[1]
              u   == emitted'[1].to
          IN  /\ launchAttemptInProgress'
              /\ timers' = timers
              /\ microtasks' = microtasks
              /\ missingLaunchConditions' = missingLaunchConditions
              /\ readiesReceived' = IF lastHandler' = "userDisconnected"
                                    THEN readiesReceived \ {u}
                                    ELSE readiesReceived
              /\ \A r \in DOMAIN playersAvailable' :
                    /\ (u \in playersAvailable'[r]) = ack.arg.roles[r]
                    /\ playersAvailable'[r] \ {u} = playersAvailable[r] \ {u}
              /\ (u \in captainsAvailable') = ack.arg.captain
              /\ captainsAvailable' \ {u} = captainsAvailable \ {u}
              /\ emitted'[2] = broadcast("launchStatusUpdated", currentStatusMessage')
              /\ currentStatusMessage'.playersAvailable = playersAvailable'
              /\ currentStatusMessage'.captainsAvailable = captainsAvailable'
              /\ \A i \in DOMAIN emitted' :
                    emitted'[i].name \notin {"launchInProgress", "launchAborted",
                                             "launchGameDraft"}]_vars

\* an availability update handled while a window is open, with readies received
C9_Witness ==
    /\ lastHandler = "updateUserAvailability"
    /\ fault = "none"
    /\ launchAttemptInProgress
    /\ count("launchStatusUpdated") = 1
    /\ readiesReceived # {}
    /\ timers = 1

C11_RemovalNeverImproves ==
    (phase = "checked" /\ launchAttemptInProgress) =>
        \A u \in readiesReceived :
            checkLaunchConditions(roles, playersAvailable, captainsAvailable,
                                  launchAttemptInProgress, readiesReceived \ {u}) = <<>>
                => missingLaunchConditions = <<>>

\* a tank-only lobby, A and B tanks and captains: a launch with A, B ready, and
\* still one with C ready as well
C11_Witness ==
    /\ phase = "checked"
    /\ launchAttemptInProgress
    /\ roles.names = <<"tank">>
    /\ playersAvailable = [tank |-> {"A", "B", "C"}]
    /\ captainsAvailable = {"A", "B"}
    /\ readiesReceived = {"A", "B", "C"}
    /\ missingLaunchConditions = <<>>
    /\ checkLaunchConditions(roles, playersAvailable, captainsAvailable,
                             launchAttemptInProgress, {"A", "B"}) = <<>>
    /\ checkLaunchConditions(roles, playersAvailable, captainsAvailable,
                             launchAttemptInProgress, {"B", "C"}) = <<"notReady">>

(***************************************************************************)
(* C12  An availability update by a user whose restrictions include start  *)
(* leaves that user in no role pool and not in the captain set, whatever   *)
(* the payload and the previous membership; the acknowledgment reports     *)
(* false for every role and for captain; no other user's membership        *)
(* changes.                                                                *)
(***************************************************************************)
C12_StartDeniedClears ==
    [][(/\ lastHandler' = "updateUserAvailability"
        /\ event'.userRestrictions.present
        /\ "start" \in event'.userRestrictions.aspects)
       => LET u == event'.payload.userID
          IN  /\ fault' = "none"
              /\ \A r \in DOMAIN playersAvailable' :
                    /\ u \notin playersAvailable'[r]
                    /\ playersAvailable'[r] = playersAvailable[r] \ {u}
              /\ u \notin captainsAvailable'
              /\ captainsAvailable' = captainsAvailable \ {u}
              /\ emitted'[1] = sendMessageToUser(u, "userAvailabilityUpdated",
                                   [roles   |-> [r \in DOMAIN playersAvailable |-> FALSE],
                                    captain |-> FALSE])]_vars

\* A, denied start, asked for both roles and captain: A is nowhere, B is where
\* B was
C12_Witness ==
    /\ lastHandler = "updateUserAvailability"
    /\ event.userRestrictions = descriptor({"start"})
    /\ event.payload = [userID |-> "A", roles |-> {"tank", "healer"}, captain |-> TRUE]
    /\ playersAvailable = [tank |-> {"B"}, healer |-> {"B", "C"}]
    /\ captainsAvailable = {"B"}
    /\ emitted[1].arg = [roles |-> [tank |-> FALSE, healer |-> FALSE], captain |-> FALSE]

(***************************************************************************)
(* C13  The availability update is total: for a user absent from the       *)
(* restriction map it is applied as for a user with no denials (pools per  *)
(* the requested roles, captain set per the captain flag), completes       *)
(* without a fault, sends the acknowledgment and calls attemptLaunch.      *)
(***************************************************************************)
C13_AbsentUserUpdateApplied ==
    (lastHandler = "updateUserAvailability" /\ ~event.userRestrictions.present) =>
        LET a == event.payload
        IN  /\ fault = "none"
            /\ \A r \in DOMAIN playersAvailable :
                  (a.userID \in playersAvailable[r]) <=> (r \in a.roles)
            /\ (a.userID \in captainsAvailable) <=> a.captain
            /\ emitted # <<>>
            /\ emitted[1] = availabilityUpdated(playersAvailable, captainsAvailable,
                                                a.userID)
            /\ \/ \E i \in DOMAIN emitted : emitted[i].name = "launchStatusUpdated"
               \/ microtasks # <<>>

(***************************************************************************)
(* C14  After a userDisconnected event for user u has been handled, u is   *)
(* in no role pool and not in the captain set and, if a window is open,    *)
(* not in the ready registry, whatever u's restrictions and previous state *)
(* were; the memberships of all other users are unchanged.                 *)
(***************************************************************************)
C14_DisconnectClearsUser ==
    [][lastHandler' = "userDisconnected"
       => LET u == event'.payload
          IN  /\ \A r \in DOMAIN playersAvailable' :
                    playersAvailable'[r] = playersAvailable[r] \ {u}
              /\ captainsAvailable' = captainsAvailable \ {u}
              /\ launchAttemptInProgress' => u \notin readiesReceived'
              /\ readiesReceived' \ {u} = readiesReceived \ {u}]_vars

(***************************************************************************)
(* C15  With roles tank and healer of min 1, two captains, tank pool       *)
(* {A, B}, healer pool {C, D} and no window open, checkLaunchConditions    *)
(* returns the empty list and attemptLaunch opens a window; in general,    *)
(* with at least 2 captains and no deficit, checkLaunchConditions called   *)
(* before a window is open returns the empty list.  The check is the one   *)
(* the handler that just ran queued with its attemptLaunch.                *)
(***************************************************************************)
C15_ChecksEmptyBeforeWindow ==
    (/\ phase = "io"
     /\ lastHandler \in {"updateUserAvailability", "userDisconnected"}
     /\ fault = "none"
     /\ ~launchAttemptInProgress
     /\ Cardinality(captainsAvailable) >= 2
     /\ ~hasDeficit(roles, playersAvailable))
        => microtasks[Len(microtasks)].value = <<>>

\* C15 as amended: that check returns the list holding readyNotChecked alone;
\* no check made for an attemptLaunch returns the empty list; and the
\* continuation of attemptLaunch that finds missingLaunchConditions to be that
\* list opens a window.
C15_ChecksReadyNotCheckedBeforeWindow ==
    /\ []((/\ phase = "io"
           /\ lastHandler \in {"updateUserAvailability", "userDisconnected"}
           /\ fault = "none"
           /\ ~launchAttemptInProgress
           /\ Cardinality(captainsAvailable) >= 2
           /\ ~hasDeficit(roles, playersAvailable))
              => microtasks[Len(microtasks)].value = <<"readyNotChecked">>)
    /\ [](\A i \in DOMAIN microtasks :
              microtasks[i].kind = "attemptLaunch" => microtasks[i].value # <<>>)
    /\ [][(/\ phase = "drain"
            /\ microtasks # <<>>
            /\ Head(microtasks).kind = "attemptLaunch"
            /\ missingLaunchConditions = <<"readyNotChecked">>)
           => (/\ launchAttemptInProgress'
               /\ readiesReceived' = {}
               /\ timers' = timers + 1
               /\ emitted' = <<broadcast("launchStatusUpdated", currentStatusMessage'),
                               broadcast("launchInProgress", <<>>)>>
               /\ currentStatusMessage'.missingLaunchConditions
                     = <<"readyNotChecked">>)]_vars

\* the window of the scenario has just been opened
C15_Witness ==
    /\ lastHandler = "attemptLaunch.then"
    /\ playersAvailable = [tank |-> {"A", "B"}, healer |-> {"C", "D"}]
    /\ captainsAvailable = {"A", "B"}
    /\ missingLaunchConditions = <<"readyNotChecked">>
    /\ launchAttemptInProgress
    /\ timers = 1
    /\ count("launchInProgress") = 1

(***************************************************************************)
(* C16  With a window open, at least 2 captains and no deficit on the raw  *)
(* pools, checkLaunchConditions returns the list holding notReady alone if *)
(* and only if fewer than 2 users are both captains and ready or the pools *)
(* intersected with the ready registry have a deficit, and the empty list  *)
(* otherwise; the list always holds at most one tag, one of notAvailable,  *)
(* readyNotChecked and notReady.                                           *)
(***************************************************************************)
C16_NotReadyIff ==
    phase = "checked" =>
        /\ (/\ launchAttemptInProgress
            /\ Cardinality(captainsAvailable) >= 2
            /\ ~hasDeficit(roles, playersAvailable))
              => missingLaunchConditions
                    = IF \/ Cardinality(captainsAvailable \cap readiesReceived) < 2
                         \/ hasDeficit(roles, readyPools)
                      THEN <<"notReady">>
                      ELSE <<>>
        /\ Len(missingLaunchConditions) <= 1
        /\ \A i \in DOMAIN missingLaunchConditions :
              missingLaunchConditions[i] \in {"notAvailable", "readyNotChecked", "notReady"}

\* a tank-only lobby whose ready tanks suffice and whose ready captains do not
C16_Witness ==
    /\ phase = "checked"
    /\ launchAttemptInProgress
    /\ roles.names = <<"tank">>
    /\ playersAvailable = [tank |-> {"A", "B", "C"}]
    /\ captainsAvailable = {"A", "B"}
    /\ readiesReceived = {"B", "C"}
    /\ ~hasDeficit(roles, readyPools)
    /\ missingLaunchConditions = <<"notReady">>

(***************************************************************************)
(* C17  After an availability update by a user whose restrictions include  *)
(* captain and not start, the user is not in the captain set, whatever the *)
(* captain flag submitted and whether a captain before or not, and each    *)
(* role pool holds the user exactly when the role is in the submitted      *)
(* roles; the acknowledgment reports these flags.                          *)
(***************************************************************************)
C17_CaptainDeniedNeverCaptain ==
    [][(/\ lastHandler' = "updateUserAvailability"
        /\ event'.userRestrictions.present
        /\ "captain" \in event'.userRestrictions.aspects
        /\ "start" \notin event'.userRestrictions.aspects)
       => LET u == event'.payload.userID
          IN  /\ fault' = "none"
              /\ u \notin captainsAvailable'
              /\ captainsAvailable' = captainsAvailable \ {u}
              /\ \A r \in DOMAIN playersAvailable' :
                    (u \in playersAvailable'[r]) <=> (r \in event'.payload.roles)
              /\ emitted'[1] = sendMessageToUser(u, "userAvailabilityUpdated",
                                   [roles   |-> [r \in DOMAIN playersAvailable |->
                                                   r \in event'.payload.roles],
                                    captain |-> FALSE])]_vars

\* A, denied captain, asked for tank and captain: a tank and no captain
C17_Witness ==
    /\ lastHandler = "updateUserAvailability"
    /\ event.userRestrictions = descriptor({"captain"})
    /\ event.payload = [userID |-> "A", roles |-> {"tank"}, captain |-> TRUE]
    /\ playersAvailable = [tank |-> {"A", "B"}, healer |-> {"C"}]
    /\ captainsAvailable = {"B"}
    /\ emitted[1].arg = [roles |-> [tank |-> TRUE, healer |-> FALSE], captain |-> FALSE]

C19_ExpiryPrunesAvailability ==
    [][(/\ phase = "drain"
        /\ microtasks # <<>>
        /\ Head(microtasks).kind = "timer")
       => (/\ lastHandler' = "setTimeout.then"
           /\ \A r \in DOMAIN playersAvailable' :
                 playersAvailable'[r] = playersAvailable[r] \cap readiesReceived
           /\ captainsAvailable' = captainsAvailable \cap readiesReceived
           /\ readiesReceived' = readiesReceived
           /\ \A u \in Users \ readiesReceived :
                 /\ u \notin captainsAvailable'
                 /\ \A r \in DOMAIN playersAvailable' : u \notin playersAvailable'[r]
           /\ currentStatusMessage'.playersAvailable = playersAvailable'
           /\ currentStatusMessage'.captainsAvailable = captainsAvailable')]_vars

\* a window aborted with A alone ready: A alone is left, tank and captain
C19_Witness ==
    /\ lastHandler = "setTimeout.then"
    /\ count("launchAborted") = 1
    /\ readiesReceived = {"A"}
    /\ playersAvailable = [tank |-> {"A"}, healer |-> {}]
    /\ captainsAvailable = {"A"}
    /\ currentStatusMessage.rolesNeeded # <<>>

(***************************************************************************)
(* C20  Every broadcast status snapshot agrees with the state at the       *)
(* moment of the broadcast: its missingLaunchConditions is what            *)
(* checkLaunchConditions returns for the pools, captain set, ready         *)
(* registry and window flag of that moment, be it broadcast with no window *)
(* open, with a window open, or at the timer's expiry.  The handlers       *)
(* broadcast after they updated the pools (a disconnect before it removes  *)
(* the readiness), the continuation of attemptLaunch before it opens the   *)
(* window, the continuation of the timer after it pruned the pools.        *)
(***************************************************************************)
C20_SnapshotMatchesConditions ==
    [][\A i \in DOMAIN emitted' :
          emitted'[i].name = "launchStatusUpdated"
             => emitted'[i].arg.missingLaunchConditions
                   = IF lastHandler' = "attemptLaunch.then"
                     THEN checkLaunchConditions(roles, playersAvailable,
                              captainsAvailable, launchAttemptInProgress,
                              readiesReceived)
                     ELSE checkLaunchConditions(roles', playersAvailable',
                              captainsAvailable', launchAttemptInProgress,
                              readiesReceived)]_vars

====
